---------------------------- MODULE Spec2Model ----------------------------
(***************************************************************************)
(* Model of src/main.cpp: the three float codecs Float16Compressor,        *)
(* FloatCompressor and compress18/decompress18.                            *)
(*                                                                         *)
(* A 32-bit word (the union Bits / encoder) is held as the value of its    *)
(* int32_t view, MinInt..MaxInt; the uint32_t and float views are read off *)
(* the same bit pattern.  Arithmetic wraps modulo 2^32.                    *)
(***************************************************************************)
EXTENDS Integers, Sequences, FiniteSets

MaxInt == 2147483647
MinInt == -MaxInt - 1

(***************************************************************************)
(* 32-bit machine operations on words.                                     *)
(***************************************************************************)
Pow2(n) == 2 ^ n

\* the low 31 bits of a word, as a number in 0..2^31-1
Low31(w) == IF w < 0 THEN w - MinInt ELSE w

\* the word with low 31 bits m and sign bit s
Word(s, m) == IF s THEN m + MinInt ELSE m

RECURSIVE And31(_, _)
And31(a, b) ==
    IF a = 0 \/ b = 0 THEN 0
    ELSE (IF a % 2 = 1 /\ b % 2 = 1 THEN 1 ELSE 0) + 2 * And31(a \div 2, b \div 2)

RECURSIVE Xor31(_, _)
Xor31(a, b) ==
    IF a = 0 THEN b
    ELSE IF b = 0 THEN a
    ELSE (IF a % 2 = b % 2 THEN 0 ELSE 1) + 2 * Xor31(a \div 2, b \div 2)

RECURSIVE Or31(_, _)
Or31(a, b) ==
    IF a = 0 THEN b
    ELSE IF b = 0 THEN a
    ELSE (IF a % 2 = 1 \/ b % 2 = 1 THEN 1 ELSE 0) + 2 * Or31(a \div 2, b \div 2)

\* a & b, a ^ b, a | b
And(a, b) == Word(a < 0 /\ b < 0, And31(Low31(a), Low31(b)))
Xor(a, b) == Word((a < 0) # (b < 0), Xor31(Low31(a), Low31(b)))
Or(a, b) == Word(a < 0 \/ b < 0, Or31(Low31(a), Low31(b)))

\* a + b and a - b modulo 2^32
Add(a, b) ==
    IF a >= 0 /\ b >= 0 /\ a > MaxInt - b THEN (a + MinInt) + (b + MinInt)
    ELSE IF a < 0 /\ b < 0 /\ a < MinInt - b THEN (a - MinInt) + (b - MinInt)
    ELSE a + b
Sub(a, b) ==
    IF a >= 0 /\ b < 0 /\ a > MaxInt + b THEN (a + MinInt) - (b - MinInt)
    ELSE IF a < 0 /\ b > 0 /\ a < MinInt + b THEN (a - MinInt) - (b + MinInt)
    ELSE a - b

\* -(cond): all ones when cond holds, else zero
Neg(cond) == IF cond THEN -1 ELSE 0

\* ui >> k, the logical shift of the unsigned view (0 <= k <= 31)
Shr(w, k) ==
    IF k = 0 THEN w
    ELSE (Low31(w) \div Pow2(k)) + (IF w < 0 THEN Pow2(31 - k) ELSE 0)

\* w << k keeping the low 32 bits (0 <= k <= 31)
Shl(w, k) ==
    IF k = 0 THEN w
    ELSE Word((Low31(w) \div Pow2(31 - k)) % 2 = 1,
              (Low31(w) % Pow2(31 - k)) * Pow2(k))

\* si >> k, the arithmetic shift of the signed view
Sar(w, k) == IF w < 0 THEN -((-(w + 1)) \div Pow2(k)) - 1 ELSE w \div Pow2(k)

\* comparison of the unsigned views
ULess(a, b) == IF (a < 0) = (b < 0) THEN a < b ELSE b < 0

(***************************************************************************)
(* The float view of a word: sign, 8-bit exponent field, 23-bit fraction.  *)
(***************************************************************************)
ExpField(w) == Low31(w) \div Pow2(23)
Fraction(w) == Low31(w) % Pow2(23)
IsNaN(w) == Low31(w) > 2139095040

\* position of the highest set bit of k > 0
RECURSIVE HighBit(_)
HighBit(k) == IF k <= 1 THEN 0 ELSE 1 + HighBit(k \div 2)

\* static_cast<int32_t>(s.f * v.f) for s a power of two (fraction 0) and v a
\* non-negative word: the float product by a power of two is exact, the
\* conversion truncates.  A product that does not fit an int32_t (this
\* includes infinity and NaN) makes the conversion undefined: it yields ub.
MulToInt(s, v, ub) ==
    LET e == ExpField(v)
        m == IF e = 0 THEN Fraction(v) ELSE Pow2(23) + Fraction(v)
        k == (IF e = 0 THEN 1 ELSE e) + ExpField(s) - 277
    IN  IF m = 0 \/ k <= -24 THEN 0
        ELSE IF k < 0 THEN m \div Pow2(-k)
        ELSE IF k <= 7 THEN m * Pow2(k)
        ELSE ub

\* the bits of s.f after s.f *= k, for s a power of two and k an int32_t
\* with 0 <= k < 2^24: the product is exact
TimesInt(s, k) ==
    IF k = 0 THEN 0
    ELSE LET p == HighBit(k)
         IN  (ExpField(s) + p) * Pow2(23) + (k - Pow2(p)) * Pow2(23 - p)

(***************************************************************************)
(* class Float16Compressor                                                 *)
(***************************************************************************)
F16_shift == 13
F16_shift_sign == 16

F16_n_inf == \h7F800000
F16_n_max == \h477FE000
F16_n_min == \h38800000
F16_n_sign == MinInt

F16_c_inf == Sar(F16_n_inf, F16_shift)
F16_n_nan == Shl(F16_c_inf + 1, F16_shift)
F16_c_max == Sar(F16_n_max, F16_shift)
F16_c_min == Sar(F16_n_min, F16_shift)
F16_c_sign == Sar(F16_n_sign, F16_shift_sign)

F16_n_mul == \h52000000
F16_c_mul == \h33800000

F16_c_sub == \h003FF
F16_c_nor == \h00400

F16_d_max == F16_c_inf - F16_c_max - 1
F16_d_min == F16_c_min - F16_c_sub - 1

\* line 44: a magnitude below the least half normal is replaced by its
\* scaled integer s
NoSubnormalCorrection(v, s) == v
CorrectSubnormal(v, s) == Xor(v, And(Xor(s, v), Neg(F16_n_min > v)))

\* line 45: a finite magnitude above the greatest half becomes infinity
OverflowFromRoundingBoundary(v) ==
    Xor(v, And(Xor(F16_n_inf, v),
               Neg(F16_n_inf > v /\ v > F16_n_max + Pow2(F16_shift - 1))))
Overflow(v) ==
    Xor(v, And(Xor(F16_n_inf, v), Neg(F16_n_inf > v /\ v > F16_n_max)))

\* line 46: a NaN below the least half NaN becomes the least half NaN
NoLeastNaN(v) == v
LeastNaN(v) ==
    Xor(v, And(Xor(F16_n_nan, v), Neg(F16_n_nan > v /\ v > F16_n_inf)))

\* uint16_t Float16Compressor::compress(float value); ub is what the
\* out-of-range float-to-int conversion of line 43 yields
Float16Compressor_compress(value, ub) ==
    LET sign == And(value, F16_n_sign)
        v1 == Xor(value, sign)
        sign16 == Shr(sign, F16_shift_sign)
        s == MulToInt(F16_n_mul, v1, ub)
        v2 == CorrectSubnormal(v1, s)
        v3 == Overflow(v2)
        v4 == LeastNaN(v3)
        v5 == Shr(v4, F16_shift)
        v6 == Xor(v5, And(Xor(Sub(v5, F16_d_max), v5), Neg(v5 > F16_c_max)))
        v7 == Xor(v6, And(Xor(Sub(v6, F16_d_min), v6), Neg(v6 > F16_c_sub)))
    IN  And(Or(v7, sign16), \hFFFF)

\* float Float16Compressor::decompress(uint16_t value)
Float16Compressor_decompress(value) ==
    LET sign == And(value, F16_c_sign)
        v1 == Xor(value, sign)
        sign32 == Shl(sign, F16_shift_sign)
        v2 == Xor(v1, And(Xor(Add(v1, F16_d_min), v1), Neg(v1 > F16_c_sub)))
        v3 == Xor(v2, And(Xor(Add(v2, F16_d_max), v2), Neg(v2 > F16_c_max)))
        s == TimesInt(F16_c_mul, v3)
        mask == Neg(F16_c_nor > v3)
        v4 == Shl(v3, F16_shift)
        v5 == Xor(v4, And(Xor(s, v4), mask))
    IN  Or(v5, sign32)

(***************************************************************************)
(* class FloatCompressor                                                   *)
(***************************************************************************)
signF == MinInt
absF == Xor(signF, -1)

\* FloatCompressor::FloatCompressor(float min, float epsilon, float max,
\* int precision): the object's fields, min, epsilon and max given as words
FloatCompressor(min, epsilon, max, precision) ==
    LET shift == 23 - precision
        f_min == min
        f_eps == epsilon
        f_max == max
        lossless == shift = 0
        nepsU == IF lossless THEN f_eps ELSE Shr(Xor(f_eps, signF), shift)
        pepsU == IF lossless THEN Xor(f_eps, signF) ELSE Shr(f_eps, shift)
        c_max == IF lossless THEN Xor(f_max, signF) ELSE Shr(f_max, shift)
        c_zero == IF lossless THEN signF ELSE 0
    IN  [ negatives |-> f_min < 0,
          lossless |-> lossless,
          f_max |-> f_max,
          f_min |-> f_min,
          f_eps |-> f_eps,
          c_max |-> c_max,
          c_zero |-> c_zero,
          p_delta |-> Sub(Sub(pepsU, c_zero), 1),
          n_delta |-> Sub(Sub(nepsU, c_max), 1),
          shift |-> shift ]

\* line 135: a magnitude below epsilon becomes zero
NoDeadZone(this, v) == v
DeadZone(this, v) == And(v, Neg(this.f_eps <= And(v, absF)))

\* float FloatCompressor::clamp(float value)
FloatCompressor_clamp(this, value) ==
    LET max == IF this.negatives
               THEN Xor(this.f_max, And(Xor(this.f_min, this.f_max), Neg(0 > value)))
               ELSE this.f_max
        v1 == Xor(value, And(Xor(max, value), Neg(value > max)))
    IN  DeadZone(this, v1)

\* lines 151-153: the lossless code gets its sign bit flipped back
NoFlipBack(this, v) == v
FlipBack(this, v) == IF this.lossless THEN Xor(v, signF) ELSE v

\* uint32_t FloatCompressor::compress(float value)
FloatCompressor_compress(this, value) ==
    LET v0 == FloatCompressor_clamp(this, value)
        v1 == IF this.lossless THEN Xor(v0, signF) ELSE Shr(v0, this.shift)
        v2 == IF this.negatives
              THEN Xor(v1, And(Xor(Sub(v1, this.n_delta), v1), Neg(v1 > this.c_max)))
              ELSE v1
        v3 == Xor(v2, And(Xor(Sub(v2, this.p_delta), v2), Neg(v2 > this.c_zero)))
    IN  FlipBack(this, v3)

\* lines 164-166: a code above c_max is a negative float's, moved back up
NoNegativeDelta(this, v) == v
AddNegativeDelta(this, v) ==
    IF this.negatives
    THEN Xor(v, And(Xor(Add(v, this.n_delta), v), Neg(v > this.c_max)))
    ELSE v

\* float FloatCompressor::decompress(uint32_t value)
FloatCompressor_decompress(this, value) ==
    LET v0 == IF this.lossless THEN Xor(value, signF) ELSE value
        v1 == Xor(v0, And(Xor(Add(v0, this.p_delta), v0), Neg(v0 > this.c_zero)))
        v2 == AddNegativeDelta(this, v1)
    IN  IF this.lossless THEN Xor(v2, signF) ELSE Shl(v2, this.shift)

(***************************************************************************)
(* compress18 / decompress18: [sign] [exponent] [significand] = [1] [5] [12]*)
(***************************************************************************)
\* uint32_t compress18(float r)
compress18(r) ==
    LET t1 == Shr(And(r, \h7ff800), 11)
        t2 == Or(t1, Shl(Sub(Shr(And(r, \h7f800000), 23), \h70), 12))
    IN  Or(t2, Shr(And(r, MinInt), 14))

\* decompress18 with the exponent bias off by one
decompress18_Bias6F(n) ==
    LET t1 == Shl(And(n, \hfff), 11)
        t2 == Or(t1, Shl(Add(Shr(And(n, \h1f000), 12), \h6f), 23))
    IN  Or(t2, Shl(And(n, \h20000), 14))

\* float decompress18(uint32_t n)
decompress18(n) ==
    LET t1 == Shl(And(n, \hfff), 11)
        t2 == Or(t1, Shl(Add(Shr(And(n, \h1f000), 12), \h70), 23))
    IN  Or(t2, Shl(And(n, \h20000), 14))

(***************************************************************************)
(* The calls a caller makes.  A caller picks a codec and a float, and      *)
(* feeds each result to the inverse operation.                             *)
(***************************************************************************)
\* bit patterns taken on either side of each boundary
Spread == 1
\* compress/decompress round trips a caller chains
MaxTrips == 2

Flip(w) == Xor(w, MinInt)
Near(b) == {Add(b, d) : d \in -Spread..Spread}
BothSigns(S) == S \cup {Flip(w) : w \in S}

\* the float of the half-precision pattern h (sign 1, exponent 5 bias 15,
\* significand 10), by the definition of the format
HalfValue(h) ==
    LET e == (h % 32768) \div 1024
        f == h % 1024
        m == IF e = 0
             THEN (IF f = 0 THEN 0
                   ELSE (103 + HighBit(f)) * Pow2(23)
                        + (f - Pow2(HighBit(f))) * Pow2(23 - HighBit(f)))
             ELSE (e + 112) * Pow2(23) + f * Pow2(13)
    IN  Word(h >= 32768, m)

HalfCodes ==
    {h \in UNION {Near(b) : b \in {0, \h200, \h3FF, \h400, \h3C00, \h6400, \h7BFF}} :
        h >= 0 /\ h < \h7C00}

F16Inputs ==
    BothSigns(
        {HalfValue(h) : h \in HalfCodes}
        \cup {w \in UNION {Near(b) : b \in {0, \h33000000, \h33800000, F16_n_min,
                                            \h3F800000, F16_n_max, \h47800000,
                                            F16_n_inf, F16_n_nan, \h7FC00000,
                                            MaxInt}} : w >= 0}
        \cup {\h44353F5C, \h7F7FFFFF})

C18Inputs ==
    BothSigns(
        {w \in UNION {Near(e * Pow2(23)) \cup {Add(e * Pow2(23), d * Pow2(11)) : d \in -Spread..Spread}
                      : e \in {0, \h50, \h61, \h6F, \h70, \h78, \h80, \h8F, \h90, \hA0, \hFF}} :
            w >= 0}
        \cup {\h44353F5C, MaxInt})

\* FloatCompressor configurations: min <= 0 < epsilon < max, 0 <= precision <= 23
Mins == {0, MinInt, Flip(\h477FE000), Flip(\h35800000)}
Epsilons == {\h38800000, \h38800001, 3}
Maxs == {\h477FE000, \h477FE001, \h3F800000}
Precisions == 0..23

FCInputs(this) ==
    BothSigns(
        {w \in UNION {Near(b) : b \in {0, this.f_eps, this.f_max, Low31(this.f_min)}} : w >= 0}
        \cup {\h3F800000, \h44353F5C, \h7F800000, \h7FC00000})

\* the second float of a pair a caller compresses with the same object
Others(this, v) ==
    {Add(v, 1), Add(v, Pow2(this.shift)), 0, this.f_eps, Flip(this.f_eps),
     this.f_max, this.f_min}

\* what the undefined float-to-int conversion of an out-of-range product
\* yields: the "integer indefinite" value, a saturated value, or zero
UBCast == {MinInt, MaxInt, 0}

VARIABLES
    codec,      \* "f16", "fc" or "c18": whose functions the caller uses
    this,       \* the FloatCompressor object
    value,      \* the float the caller starts from
    clampOut,   \* <<clamp(value)>> once clamp has been called
    otherOut,   \* <<other, compress(other)>> once a second float was compressed
    trips       \* compress(value), decompress of that, compress of that, ...

vars == <<codec, this, value, clampOut, otherOut, trips>>

\* the object main() constructs, line 204
MainCompressor == FloatCompressor(Flip(\h477FE000), \h38800000, \h477FE000, 12)

Init ==
    /\ clampOut = <<>>
    /\ otherOut = <<>>
    /\ trips = <<>>
    /\ \/ /\ codec = "f16"
          /\ this = MainCompressor
          /\ value \in F16Inputs
       \/ /\ codec = "c18"
          /\ this = MainCompressor
          /\ value \in C18Inputs
       \/ /\ codec = "fc"
          /\ \E min \in Mins, epsilon \in Epsilons, max \in Maxs, precision \in Precisions :
                this = FloatCompressor(min, epsilon, max, precision)
          /\ value \in FCInputs(this)

\* the argument of the next call of the chain
Last == IF trips = <<>> THEN value ELSE trips[Len(trips)]
CanCompress == otherOut = <<>> /\ Len(trips) % 2 = 0 /\ Len(trips) < 2 * MaxTrips
CanDecompress == otherOut = <<>> /\ Len(trips) % 2 = 1

F16Compress ==
    /\ codec = "f16"
    /\ CanCompress
    /\ \E ub \in UBCast : trips' = Append(trips, Float16Compressor_compress(Last, ub))
    /\ UNCHANGED <<codec, this, value, clampOut, otherOut>>

F16Decompress ==
    /\ codec = "f16"
    /\ CanDecompress
    /\ trips' = Append(trips, Float16Compressor_decompress(Last))
    /\ UNCHANGED <<codec, this, value, clampOut, otherOut>>

C18Compress ==
    /\ codec = "c18"
    /\ CanCompress
    /\ trips' = Append(trips, compress18(Last))
    /\ UNCHANGED <<codec, this, value, clampOut, otherOut>>

C18Decompress ==
    /\ codec = "c18"
    /\ CanDecompress
    /\ trips' = Append(trips, decompress18(Last))
    /\ UNCHANGED <<codec, this, value, clampOut, otherOut>>

FCClamp ==
    /\ codec = "fc"
    /\ clampOut = <<>>
    /\ trips = <<>>
    /\ clampOut' = <<FloatCompressor_clamp(this, value)>>
    /\ UNCHANGED <<codec, this, value, otherOut, trips>>

FCCompress ==
    /\ codec = "fc"
    /\ clampOut # <<>>
    /\ CanCompress
    /\ trips' = Append(trips, FloatCompressor_compress(this, Last))
    /\ UNCHANGED <<codec, this, value, clampOut, otherOut>>

FCDecompress ==
    /\ codec = "fc"
    /\ CanDecompress
    /\ trips' = Append(trips, FloatCompressor_decompress(this, Last))
    /\ UNCHANGED <<codec, this, value, clampOut, otherOut>>

\* a second float compressed with the same object
FCCompressOther ==
    /\ codec = "fc"
    /\ Len(trips) = 1
    /\ otherOut = <<>>
    /\ \E other \in Others(this, value) :
          otherOut' = <<other, FloatCompressor_compress(this, other)>>
    /\ UNCHANGED <<codec, this, value, clampOut, trips>>

Next ==
    \/ F16Compress
    \/ F16Decompress
    \/ C18Compress
    \/ C18Decompress
    \/ FCClamp
    \/ FCCompress
    \/ FCDecompress
    \/ FCCompressOther

Spec == Init /\ [][Next]_vars

(***************************************************************************)
(* Vocabulary of the properties.                                           *)
(***************************************************************************)
\* the order of floats on words that are not NaN (-0.0 = +0.0)
FKey(w) == IF w >= 0 THEN w ELSE -Low31(w)
FLess(a, b) == FKey(a) < FKey(b)
FLeq(a, b) == FKey(a) <= FKey(b)

\* min <= 0 < epsilon < max and 0 <= precision <= 23
ValidConfig ==
    /\ ~IsNaN(this.f_min) /\ ~IsNaN(this.f_eps) /\ ~IsNaN(this.f_max)
    /\ FLeq(this.f_min, 0) /\ FLess(0, this.f_eps) /\ FLess(this.f_eps, this.f_max)
    /\ this.shift \in 0..23

\* x lies in [min, max] and outside the dead zone
InRange(x) == ~IsNaN(x) /\ FLeq(this.f_min, x) /\ FLeq(x, this.f_max)
Live(x) == InRange(x) /\ Low31(x) >= this.f_eps

\* the significand bits compress keeps
Kept(x) == Low31(x) \div Pow2(this.shift)

\* a <= b on the unsigned views
ULeq(a, b) == ~ULess(b, a)

\* the two floats of a pair and their codes, once both are compressed
Paired == codec = "fc" /\ otherOut # <<>> /\ ValidConfig
Code1 == trips[1]
Other == otherOut[1]
Code2 == otherOut[2]

(***************************************************************************)
(* C1: FloatCompressor::compress is strictly order-preserving: for floats  *)
(* x1 < x2, both inside [min, max] and of magnitude >= epsilon,            *)
(* compress(x1) < compress(x2) as unsigned integers.                       *)
(***************************************************************************)
StrictlyOrdered(x1, c1, x2, c2) ==
    (Live(x1) /\ Live(x2) /\ FLess(x1, x2)) => ULess(c1, c2)

\* C1 as stated: x1 < x2, both live, implies compress(x1) < compress(x2)
C1_OrderPreserving ==
    Paired => /\ StrictlyOrdered(value, Code1, Other, Code2)
              /\ StrictlyOrdered(Other, Code2, value, Code1)

\* the order of the codes of two live floats x1 < x2, by their signs
SignMagnitudeOrdered(x1, c1, x2, c2) ==
    (Live(x1) /\ Live(x2) /\ FLess(x1, x2)) =>
        /\ (x1 >= 0 /\ x2 >= 0) =>
              ULeq(c1, c2) /\ (Kept(x1) # Kept(x2) => ULess(c1, c2))
        /\ (x1 < 0 /\ x2 < 0) =>
              ULeq(c2, c1) /\ (Kept(x1) # Kept(x2) => ULess(c2, c1))
        /\ (x1 < 0 /\ x2 >= 0) => ULess(c2, c1)

\* C1 as amended: on two positive floats compress is non-decreasing, and
\* strictly increasing when the kept bits differ; on two negative floats it
\* is non-increasing, strictly decreasing when the kept bits differ; and a
\* negative float's code is above every positive float's code.
C1_SignMagnitudeOrder ==
    Paired => /\ SignMagnitudeOrdered(value, Code1, Other, Code2)
              /\ SignMagnitudeOrdered(Other, Code2, value, Code1)

\* C1 witness: a lossy object has compressed two negative floats whose kept bits differ
C1_Witness ==
    /\ Paired /\ ~this.lossless
    /\ Live(value) /\ Live(Other) /\ FLess(value, Other)
    /\ value < 0 /\ Other < 0 /\ Kept(value) # Kept(Other)
    /\ ULess(Code2, Code1)

(***************************************************************************)
(* C2: for each codec a second round trip changes nothing:                 *)
(* decode(encode(decode(encode(x)))) = decode(encode(x)).                  *)
(***************************************************************************)
\* C2 as stated: the fourth result of the chain equals the second
C2_SecondTripIdentity ==
    Len(trips) >= 4 => trips[4] = trips[2]

(***************************************************************************)
(* C3: FloatCompressor::decompress(compress(x)) has the sign of clamp(x)   *)
(* and is clamp(x) with its low 23 - precision bits cleared; with          *)
(* precision = 23 it is clamp(x) bit for bit.                              *)
(***************************************************************************)
\* C3: decompress(compress(x)) against the result of clamp(x)
C3_RoundTripAccuracy ==
    (codec = "fc" /\ ValidConfig /\ Len(trips) >= 2) =>
        LET c == clampOut[1]
            d == trips[2]
        IN  /\ (d < 0) = (c < 0)
            /\ Low31(d) <= Low31(c)
            /\ Low31(c) - Low31(d) < Pow2(this.shift)
            /\ Low31(d) = Low31(c) - (Low31(c) % Pow2(this.shift))
            /\ this.lossless => d = c

\* C3 witness: a lossy round trip of a negative float that lost low bits
C3_Witness ==
    /\ codec = "fc" /\ ValidConfig /\ Len(trips) >= 2
    /\ ~this.lossless /\ this.negatives
    /\ clampOut[1] < 0 /\ clampOut[1] = value
    /\ trips[2] # clampOut[1]

(***************************************************************************)
(* C4: every float x with |x| < epsilon, of either sign, compresses to the *)
(* code of 0.0.                                                            *)
(***************************************************************************)
\* C4: the code of a float below epsilon is the code of 0.0
C4_DeadZone ==
    (Paired /\ Other = 0 /\ Low31(value) < this.f_eps) => Code1 = Code2

\* C4 witness: a negative non-zero float below epsilon has been compressed, and 0.0
C4_Witness ==
    /\ Paired /\ Other = 0
    /\ value < 0 /\ Low31(value) > 0 /\ Low31(value) < this.f_eps
    /\ this.negatives /\ ~this.lossless

(***************************************************************************)
(* C5: decompress18(compress18(x)) = x for every float whose exponent      *)
(* field lies in 0x61..0x80 and whose low 11 significand bits are zero.    *)
(***************************************************************************)
C18Exact(lo, hi) ==
    (codec = "c18" /\ Len(trips) >= 2
        /\ ExpField(value) \in lo..hi /\ Fraction(value) % Pow2(11) = 0)
    => trips[2] = value

\* C5 as stated: the round trip is exact on the window 0x61..0x80
C5_RoundTripStatedWindow == C18Exact(\h61, \h80)

\* C5 as amended: the round trip is exact on the window 0x70..0x8F
C5_RoundTripWindow == C18Exact(\h70, \h8F)

\* C5 witness: a negative float at the top of the window has made a round trip
C5_Witness ==
    /\ codec = "c18" /\ Len(trips) >= 2
    /\ value < 0 /\ ExpField(value) = \h8F /\ Fraction(value) # 0
    /\ Fraction(value) % Pow2(11) = 0

(***************************************************************************)
(* C6: Float16Compressor::decompress(compress(x)) = x, bit for bit, for    *)
(* every float of magnitude below 65504 that a half represents exactly     *)
(* (normals, subnormals k * 2^-24, both zeros).                            *)
(***************************************************************************)
\* the magnitude m is 0, a half normal or a half subnormal
HalfExact(m) ==
    \/ m = 0
    \/ ExpField(m) \in 113..142 /\ Fraction(m) % Pow2(13) = 0
    \/ ExpField(m) \in 103..112 /\ Fraction(m) % Pow2(23 - (ExpField(m) - 103)) = 0

\* C6: the round trip of a half-exact float below 65504 is the float
C6_HalfExactRoundTrip ==
    (codec = "f16" /\ Len(trips) >= 2
        /\ HalfExact(Low31(value)) /\ Low31(value) < F16_n_max)
    => trips[2] = value

\* C6 witness: a negative half subnormal has made a round trip
C6_Witness ==
    /\ codec = "f16" /\ Len(trips) >= 2
    /\ value < 0 /\ ExpField(value) \in 104..112
    /\ HalfExact(Low31(value)) /\ Fraction(value) # 0

(***************************************************************************)
(* C7: Float16Compressor::compress returns 0x7C00 with the sign at bit 15  *)
(* for every non-NaN float of magnitude >= 65504 (0x477FE000).             *)
(***************************************************************************)
\* the half infinity with the sign of value
HalfInfinity == \h7C00 + (IF value < 0 THEN \h8000 ELSE 0)

\* C7 as stated: magnitude >= 65504 compresses to the signed half infinity
C7_OverflowFromHalfMax ==
    (codec = "f16" /\ Len(trips) >= 1 /\ ~IsNaN(value) /\ Low31(value) >= F16_n_max)
    => trips[1] = HalfInfinity

\* C7 as amended: every non-NaN float of magnitude strictly above 65504
\* compresses to the signed half infinity
C7_OverflowAboveHalfMax ==
    (codec = "f16" /\ Len(trips) >= 1 /\ ~IsNaN(value) /\ Low31(value) > F16_n_max)
    => trips[1] = HalfInfinity

\* C7 witness: a finite negative float just above 65504 has been compressed
C7_Witness ==
    /\ codec = "f16" /\ Len(trips) >= 1
    /\ value < 0 /\ Low31(value) > F16_n_max /\ Low31(value) < F16_n_inf

(***************************************************************************)
(* C8: for every float32 NaN, Float16Compressor::compress returns a half   *)
(* NaN with the NaN's sign (never half infinity) and decompress of it is a *)
(* float32 NaN.                                                            *)
(***************************************************************************)
\* C8: a NaN compresses to a signed half NaN and decompresses to a NaN
C8_NaNStaysNaN ==
    (codec = "f16" /\ IsNaN(value)) =>
        /\ Len(trips) >= 1 =>
              /\ trips[1] \in 0..65535
              /\ (trips[1] >= 32768) = (value < 0)
              /\ (trips[1] % 32768) \div 1024 = 31
              /\ trips[1] % 1024 # 0
        /\ Len(trips) >= 2 => IsNaN(trips[2])

\* C8 witness: a negative NaN that made a round trip, whose set significand bits are all among the low 13
C8_Witness ==
    /\ codec = "f16" /\ Len(trips) >= 2
    /\ value < 0 /\ IsNaN(value) /\ Fraction(value) < Pow2(13)

(***************************************************************************)
(* C9: compress18 returns a value below 2^18 whose bit 17 is the sign bit, *)
(* bits 16..12 are (exponent field - 0x70) mod 32 and bits 11..0 are       *)
(* significand bits 22..11.                                                *)
(***************************************************************************)
\* C9 as stated: the code is sign, wrapped exponent and top significand bits
C9_Layout ==
    (codec = "c18" /\ Len(trips) >= 1) =>
        trips[1] = (IF value < 0 THEN Pow2(17) ELSE 0)
                   + ((ExpField(value) - \h70) % 32) * Pow2(12)
                   + Fraction(value) \div Pow2(11)

(***************************************************************************)
(* C10: FloatCompressor::clamp(x) is zero or a value v with                *)
(* epsilon <= |v| that lies in [min, max] (in [0, max] when min = 0).      *)
(***************************************************************************)
\* C10 as stated: clamp(x) is zero or live, and not negative when min = 0
C10_ClampRange ==
    (codec = "fc" /\ ValidConfig /\ clampOut # <<>>) =>
        LET v == clampOut[1]
        IN  \/ v = 0
            \/ Live(v) /\ (this.f_min = 0 => v >= 0)

=============================================================================
